---------------------------- MODULE Spec2Model ----------------------------
(***************************************************************************)
(* Model of the study-time tracker in src/app.py: the record store         *)
(* (table study_sessions), the wall clock, and the HTTP handlers           *)
(* record_session, get_today_stats, get_statistics,                        *)
(* get_subject_comparison and get_streak_info.                             *)
(*                                                                         *)
(* Representation.                                                         *)
(*  - A date string 'YYYY-MM-DD' is the tuple <<y, m, d>>; Python's string *)
(*    comparison of two such strings (fixed width, zero padded) is the     *)
(*    lexicographic order of the tuples (StrLess).                         *)
(*  - A datetime.date is its proleptic Gregorian ordinal; strptime is      *)
(*    ToOrdinal and strftime is FromOrdinal.                               *)
(*  - A request's JSON 'duration' is a number that need not be whole; it   *)
(*    is kept in half seconds (181 is 90.5 s), int() truncates it.         *)
(*  - Aggregates are kept in seconds; the minutes and hours of a response  *)
(*    are seconds / 60 and seconds / 3600 and are not modelled.            *)
(***************************************************************************)
EXTENDS Integers, Sequences, FiniteSets, TLC

VARIABLES store, now, resp, hist

vars == <<store, now, resp, hist>>

(***************************************************************************)
(* Bounds of the model.                                                    *)
(***************************************************************************)
\* rows the table may hold
MaxRecords == 2
\* days the clock may run past its first day
MaxDays == 3
\* length of the calendar window the streak inputs are drawn from
MaxSpan == 5
\* days over which the day boundary is tried, from StartDate on
MaxBoundaryDays == 70

(***************************************************************************)
(* Program constants.                                                      *)
(***************************************************************************)
\* app.py:66  if now.hour < 5
CutoffHour == 5
\* app.py:137  if duration < 60
MinDuration == 60

\* app.py:45  the fixed subject list (names romanised)
SUBJECTS == {"wonga", "sebeop", "jaejeong", "haengjeong", "sehoe", "jaemu", "dokseo"}

\* app.py:250  periods = [3, 7, 14, 30, 180]
periods == {3, 7, 14, 30, 180}

(***************************************************************************)
(* Calendar: datetime.date arithmetic, strftime and strptime.              *)
(***************************************************************************)
IsLeap(y) == (y % 4 = 0) /\ ((y % 100 # 0) \/ (y % 400 = 0))

DaysInMonth(y, m) ==
    IF m = 2 THEN (IF IsLeap(y) THEN 29 ELSE 28)
    ELSE IF m \in {4, 6, 9, 11} THEN 30 ELSE 31

DaysBeforeYear(y) ==
    (y - 1) * 365 + ((y - 1) \div 4) - ((y - 1) \div 100) + ((y - 1) \div 400)

\* days of the year before the first day of month m
DaysBeforeMonth(y, m) ==
    <<0, 31, 59, 90, 120, 151, 181, 212, 243, 273, 304, 334>>[m]
    + (IF m > 2 /\ IsLeap(y) THEN 1 ELSE 0)

\* datetime.strptime(s, '%Y-%m-%d').date(): the date of a date string
ToOrdinal(ds) == DaysBeforeYear(ds[1]) + DaysBeforeMonth(ds[1], ds[2]) + ds[3]

\* date.strftime('%Y-%m-%d'): the date string of a date
FromOrdinal(n) ==
    LET n0   == n - 1
        n400 == n0 \div 146097
        r400 == n0 % 146097
        n100 == r400 \div 36524
        r100 == r400 % 36524
        n4   == r100 \div 1461
        r4   == r100 % 1461
        n1   == r4 \div 365
        r1   == r4 % 365
        year == n400 * 400 + n100 * 100 + n4 * 4 + n1 + 1
    IN  IF n1 = 4 \/ n100 = 4
        THEN <<year - 1, 12, 31>>
        ELSE LET month == CHOOSE m \in 1..12 :
                              /\ DaysBeforeMonth(year, m) <= r1
                              /\ r1 < DaysBeforeMonth(year, m) + DaysInMonth(year, m)
             IN  <<year, month, r1 - DaysBeforeMonth(year, month) + 1>>

\* Python's a < b on two date strings
StrLess(a, b) ==
    \/ a[1] < b[1]
    \/ a[1] = b[1] /\ a[2] < b[2]
    \/ a[1] = b[1] /\ a[2] = b[2] /\ a[3] < b[3]

\* Python's a >= b on two date strings (the SQL filter Date >= cutoff_date)
StrGeq(a, b) == ~StrLess(a, b)

\* min() and max() of a non-empty set of date strings
StrMin(S) == CHOOSE a \in S : \A b \in S : ~StrLess(b, a)
StrMax(S) == CHOOSE a \in S : \A b \in S : ~StrLess(a, b)

(***************************************************************************)
(* The clock. An instant is datetime.now(ZoneInfo("Asia/Seoul")): the      *)
(* ordinal of its calendar date and its hour. now is the instant the last  *)
(* request read; every request reads an instant that is not before it. The *)
(* naive datetime.now() of the host is the same instant read in the host's *)
(* zone, some hours away.                                                  *)
(***************************************************************************)
\* the hours of the day at which the clock is read
ClockHours == {4, 5}

\* the first day of the clock, two days before a year end
StartDate == <<2023, 12, 30>>

\* hosts in Asia/Seoul and in UTC
HostOffsets == {0, -9}

\* now - timedelta(days=k)
MinusDays(t, k) == [ord |-> t.ord - k, hour |-> t.hour]

\* t.strftime('%Y-%m-%d')
Strftime(t) == FromOrdinal(t.ord)

\* datetime.now() on the host
HostNow(t, off) ==
    LET h == t.hour + off
    IN  IF h < 0 THEN [ord |-> t.ord - 1, hour |-> h + 24]
        ELSE IF h > 23 THEN [ord |-> t.ord + 1, hour |-> h - 24]
        ELSE [ord |-> t.ord, hour |-> h]

\* a faulty variant of get_custom_date: the boundary hour itself counts as before it
get_custom_date_inclusive(t) ==
    IF t.hour <= CutoffHour THEN Strftime(MinusDays(t, 1)) ELSE Strftime(t)

get_custom_date(t) ==
    IF t.hour < CutoffHour THEN Strftime(MinusDays(t, 1)) ELSE Strftime(t)

get_yesterday_date(t) ==
    IF t.hour < CutoffHour THEN Strftime(MinusDays(t, 2)) ELSE Strftime(MinusDays(t, 1))

(***************************************************************************)
(* The record store: table study_sessions, rows in insertion order. A row  *)
(* is [Date, Subject, Duration]; StartTime and EndTime are written once    *)
(* and read by no handler.                                                 *)
(***************************************************************************)
Rows(st) == 1..Len(st)

\* func.sum(StudySession.Duration) over the rows idx, "or 0" when there are none
RECURSIVE SumDuration(_, _)
SumDuration(st, idx) ==
    IF idx = {} THEN 0
    ELSE LET i == CHOOSE j \in idx : TRUE
         IN  st[i].Duration + SumDuration(st, idx \ {i})

\* .filter_by(Date=d)
FilterByDate(st, d) == {i \in Rows(st) : st[i].Date = d}

\* .filter(StudySession.Date >= cutoff_date)
FilterSince(st, cutoff) == {i \in Rows(st) : StrGeq(st[i].Date, cutoff)}

\* a faulty variant of FilterSince: the cutoff date itself is left out
FilterAfter(st, cutoff) == {i \in Rows(st) : StrLess(cutoff, st[i].Date)}

\* query(Subject, func.sum(Duration)) ... .group_by(Subject).all()
GroupBySubject(st, idx) ==
    [s \in {st[i].Subject : i \in idx} |->
        SumDuration(st, {i \in idx : st[i].Subject = s})]

\* query(Date, func.sum(Duration)) ... .group_by(Date).all()
GroupByDate(st, idx) ==
    [d \in {st[i].Date : i \in idx} |->
        SumDuration(st, {i \in idx : st[i].Date = d})]

\* query(StudySession.Date).distinct().all() as a set
DistinctDates(st) == {st[i].Date : i \in Rows(st)}

\* the sum of the values of a mapping key -> seconds
RECURSIVE SumMap(_)
SumMap(f) ==
    IF DOMAIN f = {} THEN 0
    ELSE LET k == CHOOSE x \in DOMAIN f : TRUE
         IN  f[k] + SumMap([x \in DOMAIN f \ {k} |-> f[x]])

(***************************************************************************)
(* POST /api/record-session                                                *)
(***************************************************************************)
FieldNames == {"subject", "start_time", "end_time", "duration"}

\* durations a client sends, in half seconds: 59.5 s, 60 s, 90.5 s
DurationInputs == {119, 120, 181}

\* subjects a client sends; "english" is not in SUBJECTS
SubjectInputs == {"wonga", "english"}

\* the request bodies: complete ones, and ones with a single field missing
Requests ==
    {[fields |-> FieldNames, duration |-> d, subject |-> s] :
        d \in DurationInputs, s \in SubjectInputs}
    \cup
    {[fields |-> FieldNames \ {f}, duration |-> 181, subject |-> "wonga"] :
        f \in FieldNames}

NoReq == [fields |-> {}, duration |-> 0, subject |-> ""]

\* data.get('duration', 0), in half seconds
Duration2(req) == IF "duration" \in req.fields THEN req.duration ELSE 0

\* a faulty variant of TooShort: the limit is taken for half seconds
TooShortHalved(req) == Duration2(req) < MinDuration

\* if duration < 60
TooShort(req) == Duration2(req) < 2 * MinDuration

\* data['subject'], data['start_time'], data['end_time'] raise KeyError
KeyError(req) == {"subject", "start_time", "end_time"} \ req.fields # {}

\* StudySession(Date=get_custom_date(), Subject=..., Duration=int(duration))
new_session(req, t) ==
    [Date     |-> get_custom_date(t),
     Subject  |-> req.subject,
     Duration |-> Duration2(req) \div 2]

\* a faulty variant of Rollback: the row added to the session stays
RollbackKeepsPending(before, pending) == pending

\* db.session.rollback(): the store as it was before db.session.add
Rollback(before, pending) == before

\* the whole handler: the store afterwards and the response
record_session(st, t, req, commitFails) ==
    IF TooShort(req)
    THEN [store |-> st,
          resp  |-> [op |-> "record", status |-> 400, message |-> "too_short"]]
    ELSE IF KeyError(req)
    THEN [store |-> st,
          resp  |-> [op |-> "record", status |-> 500, message |-> "key_error"]]
    ELSE LET pending == Append(st, new_session(req, t))
         IN  IF commitFails
             THEN [store |-> Rollback(st, pending),
                   resp  |-> [op |-> "record", status |-> 500, message |-> "db_failed"]]
             ELSE [store |-> pending,
                   resp  |-> [op |-> "record", status |-> 200, message |-> "recorded"]]


(***************************************************************************)
(* GET /api/today-stats                                                    *)
(***************************************************************************)
\* get_motivation_message: which message, if any (hours compare as seconds)
get_motivation_message(today_seconds, yesterday_seconds) ==
    IF yesterday_seconds = 0
    THEN (IF today_seconds > 0 THEN "new_start" ELSE "start_today")
    ELSE IF today_seconds > yesterday_seconds THEN "ahead"
    ELSE IF today_seconds < yesterday_seconds THEN "behind"
    ELSE "none"

\* a faulty variant of get_today_stats: the totals are taken one day back
get_today_stats_yesterday(st, t) ==
    LET today_date     == get_custom_date(t)
        yesterday_date == get_yesterday_date(t)
    IN  [op |-> "today", status |-> 200,
         date |-> today_date,
         today_total_seconds |-> SumDuration(st, FilterByDate(st, yesterday_date)),
         subject_times |-> GroupBySubject(st, FilterByDate(st, yesterday_date)),
         motivation_message |-> "none"]

get_today_stats(st, t) ==
    LET today_date     == get_custom_date(t)
        yesterday_date == get_yesterday_date(t)
        today_total_seconds     == SumDuration(st, FilterByDate(st, today_date))
        yesterday_total_seconds == SumDuration(st, FilterByDate(st, yesterday_date))
        subject_rows == GroupBySubject(st, FilterByDate(st, today_date))
    IN  [op |-> "today", status |-> 200,
         date |-> today_date,
         today_total_seconds |-> today_total_seconds,
         subject_times |-> subject_rows,
         motivation_message |->
             get_motivation_message(today_total_seconds, yesterday_total_seconds)]

(***************************************************************************)
(* GET /api/statistics/<int:days>                                          *)
(***************************************************************************)
\* (datetime.now() - timedelta(days=days)).strftime('%Y-%m-%d')
cutoff_date(hostT, days) == Strftime(MinusDays(hostT, days))

\* a faulty variant of daily_rows: the day of the cutoff is left out
daily_rows_after(st, cutoff) == GroupByDate(st, FilterAfter(st, cutoff))

\* the per-day query
daily_rows(st, cutoff) == GroupByDate(st, FilterSince(st, cutoff))

\* the per-subject query
subject_rows_since(st, cutoff) == GroupBySubject(st, FilterSince(st, cutoff))

get_statistics(st, hostT, days) ==
    LET cutoff == cutoff_date(hostT, days)
    IN  [op |-> "statistics", status |-> 200,
         days |-> days,
         cutoff_date |-> cutoff,
         total_seconds |-> SumDuration(st, FilterSince(st, cutoff)),
         subject_times |-> subject_rows_since(st, cutoff),
         daily_stats   |-> daily_rows(st, cutoff)]

(***************************************************************************)
(* GET /api/subject-comparison                                             *)
(***************************************************************************)
\* a faulty variant of PeriodStats: every row is entered, whatever its subject
PeriodStatsAllRows(rows) ==
    [s \in SUBJECTS \cup DOMAIN rows |->
        IF s \in DOMAIN rows THEN [seconds |-> rows[s]] ELSE [seconds |-> 0]]

\* period_stats after the loop over the rows: the zero entries of SUBJECTS,
\* overwritten by the rows whose subject is a key
PeriodStats(rows) ==
    [s \in SUBJECTS |->
        IF s \in DOMAIN rows THEN [seconds |-> rows[s]] ELSE [seconds |-> 0]]

\* total_time after the loop over the rows: every row is added
PeriodTotal(rows) == SumMap(rows)

get_subject_comparison(st, hostT) ==
    [op |-> "comparison", status |-> 200,
     comparison_data |->
        [days \in periods |->
            LET rows == subject_rows_since(st, cutoff_date(hostT, days))
            IN  [cutoff_date   |-> cutoff_date(hostT, days),
                 total_seconds |-> PeriodTotal(rows),
                 subjects      |-> PeriodStats(rows)]]]

(***************************************************************************)
(* GET /api/streak-info                                                    *)
(***************************************************************************)
\* the while loop: the dates in the set going back from check_date
RECURSIVE StreakBack(_, _)
StreakBack(dates, check_date) ==
    IF FromOrdinal(check_date) \in dates
    THEN 1 + StreakBack(dates, check_date - 1)
    ELSE 0

\* a faulty variant of StreakDays: today is not counted
StreakDaysFromZero(dates, current_date_str) ==
    IF current_date_str \in dates
    THEN StreakBack(dates, ToOrdinal(current_date_str) - 1)
    ELSE 0

StreakDays(dates, current_date_str) ==
    IF current_date_str \in dates
    THEN 1 + StreakBack(dates, ToOrdinal(current_date_str) - 1)
    ELSE 0

\* a faulty variant of MissedRange: the last day, today, is not looked at
MissedRangeShort(current_date, first_day) == current_date - first_day

\* (current_date - first_day).days + 1
MissedRange(current_date, first_day) == (current_date - first_day) + 1

\* the for loop over range(count): the dates from first_day on not in the set
RECURSIVE MissedLoop(_, _, _)
MissedLoop(dates, first_day, count) ==
    IF count <= 0 THEN <<>>
    ELSE LET rest == MissedLoop(dates, first_day, count - 1)
             check_date_str == FromOrdinal(first_day + (count - 1))
         IN  IF check_date_str \notin dates THEN Append(rest, check_date_str) ELSE rest

\* sorted(missed_days, reverse=True) on date strings
RECURSIVE InsertDescending(_, _)
InsertDescending(x, s) ==
    IF s = <<>> THEN <<x>>
    ELSE IF StrLess(Head(s), x) THEN <<x>> \o s
    ELSE <<Head(s)>> \o InsertDescending(x, Tail(s))

RECURSIVE SortedReverse(_)
SortedReverse(s) ==
    IF s = <<>> THEN <<>> ELSE InsertDescending(Head(s), SortedReverse(Tail(s)))

\* step 4: the message; "" is the message both branches on
\* days_since_last_study leave untouched
StreakMessage(dates, streak_days, current_date) ==
    IF streak_days > 0 THEN [kind |-> "streak", n |-> streak_days]
    ELSE IF dates # {}
    THEN LET days_since_last_study == current_date - ToOrdinal(StrMax(dates))
         IN  IF days_since_last_study = 1 THEN [kind |-> "start_today", n |-> 0]
             ELSE IF days_since_last_study > 1
             THEN [kind |-> "days_rested", n |-> days_since_last_study]
             ELSE [kind |-> "", n |-> 0]
    ELSE [kind |-> "new_start", n |-> 0]

get_streak_info(st, t) ==
    LET all_study_dates == DistinctDates(st)
    IN  IF all_study_dates = {}
        THEN [op |-> "streak", status |-> 200,
              streak_days |-> 0, missed_days |-> <<>>,
              message |-> [kind |-> "first_study", n |-> 0]]
        ELSE LET current_date_str == get_custom_date(t)
                 current_date == ToOrdinal(current_date_str)
                 streak_days  == StreakDays(all_study_dates, current_date_str)
                 first_day    == ToOrdinal(StrMin(all_study_dates))
                 missed_days  == MissedLoop(all_study_dates, first_day,
                                            MissedRange(current_date, first_day))
             IN  [op |-> "streak", status |-> 200,
                  streak_days |-> streak_days,
                  missed_days |-> SortedReverse(missed_days),
                  message |-> StreakMessage(all_study_dates, streak_days, current_date)]

(***************************************************************************)
(* History of the requests, kept for stating the properties: the store as  *)
(* the last request found it and its body when it was a record-session;    *)
(* and, when the last request is a today-stats that came right after a     *)
(* record-session that succeeded, what that one found and read.            *)
(***************************************************************************)
NoPrev == [op |-> "other"]

History(req) == [store |-> store, req |-> req, prev |-> NoPrev]

HistoryAfterRecord ==
    [store |-> store,
     req   |-> NoReq,
     prev  |-> IF resp.op = "record" /\ resp.status = 200
               THEN [op |-> "record", store |-> hist.store,
                     now |-> now, req |-> hist.req]
               ELSE NoPrev]

(***************************************************************************)
(* State machine.                                                          *)
(***************************************************************************)
\* the instants the clock is read at
Instants ==
    {[ord |-> ToOrdinal(StartDate) + k, hour |-> h] : k \in 0..MaxDays, h \in ClockHours}

\* t is not before s
NotBefore(t, s) == t.ord > s.ord \/ (t.ord = s.ord /\ t.hour >= s.hour)

\* the instants a request may read: the one the last request read, or the
\* first one after it
Later ==
    {t \in Instants :
        /\ NotBefore(t, now)
        /\ \A u \in Instants : (NotBefore(u, now) /\ u # now) => NotBefore(u, t)}

\* numbers of days asked of statistics
DaysInputs == {0, 3}

Init ==
    /\ store = <<>>
    /\ now = [ord |-> ToOrdinal(StartDate), hour |-> 4]
    /\ resp = [op |-> "none"]
    /\ hist = [store |-> <<>>, req |-> NoReq, prev |-> NoPrev]

RecordSessionAt(t) ==
    /\ Len(store) < MaxRecords
    /\ \E req \in Requests, commitFails \in BOOLEAN :
          LET out == record_session(store, t, req, commitFails)
          IN  /\ store' = out.store
              /\ resp' = out.resp
              /\ hist' = History(req)
    /\ now' = t

GetTodayStatsAt(t) ==
    /\ resp' = get_today_stats(store, t)
    /\ hist' = HistoryAfterRecord
    /\ now' = t
    /\ UNCHANGED store

GetStatisticsAt(t) ==
    /\ \E days \in DaysInputs, off \in HostOffsets :
          resp' = get_statistics(store, HostNow(t, off), days)
    /\ hist' = History(NoReq)
    /\ now' = t
    /\ UNCHANGED store

GetSubjectComparisonAt(t) ==
    /\ \E off \in HostOffsets :
          resp' = get_subject_comparison(store, HostNow(t, off))
    /\ hist' = History(NoReq)
    /\ now' = t
    /\ UNCHANGED store

GetStreakInfoAt(t) ==
    /\ resp' = get_streak_info(store, t)
    /\ hist' = History(NoReq)
    /\ now' = t
    /\ UNCHANGED store

RecordSession == \E t \in Later : RecordSessionAt(t)
GetTodayStats == \E t \in Later : GetTodayStatsAt(t)
GetStatistics == \E t \in Later : GetStatisticsAt(t)
GetSubjectComparison == \E t \in Later : GetSubjectComparisonAt(t)
GetStreakInfo == \E t \in Later : GetStreakInfoAt(t)

Next ==
    \/ RecordSession
    \/ GetTodayStats
    \/ GetStatistics
    \/ GetSubjectComparison
    \/ GetStreakInfo

Spec == Init /\ [][Next]_vars

(***************************************************************************)
(* The day boundary alone: the clock stands at any hour of any of the days *)
(* from StartDate on, and today-stats reads it.                            *)
(***************************************************************************)
BoundaryInstants ==
    {[ord |-> ToOrdinal(StartDate) + k, hour |-> h] : k \in 0..MaxBoundaryDays, h \in 0..23}

DateInit ==
    /\ store = <<>>
    /\ now \in BoundaryInstants
    /\ resp = [op |-> "none"]
    /\ hist = [store |-> <<>>, req |-> NoReq, prev |-> NoPrev]

TodayStatsNow == GetTodayStatsAt(now)

DateNext == TodayStatsNow

DateSpec == DateInit /\ [][DateNext]_vars

(***************************************************************************)
(* The streak computation alone: the table holds any set of study dates of *)
(* a window of days, today is any day around it, and streak-info is asked. *)
(* Today may lie before a stored date: the dates were written from the     *)
(* wall clock, which can be set back, and the table outlives the process.  *)
(***************************************************************************)
StreakWindow == {FromOrdinal(ToOrdinal(StartDate) + k) : k \in 0..(MaxSpan - 1)}

\* a table with one row for each date of S, in the order of the dates
RECURSIVE StoreOfDates(_)
StoreOfDates(S) ==
    IF S = {} THEN <<>>
    ELSE LET last == StrMax(S)
         IN  Append(StoreOfDates(S \ {last}),
                    [Date |-> last, Subject |-> "wonga", Duration |-> MinDuration])

StreakInit ==
    /\ store \in {StoreOfDates(S) : S \in SUBSET StreakWindow}
    /\ now \in {[ord |-> ToOrdinal(StartDate) + k, hour |-> h] :
                    k \in 0..MaxSpan, h \in ClockHours}
    /\ resp = [op |-> "none"]
    /\ hist = [store |-> store, req |-> NoReq, prev |-> NoPrev]

StreakInfoNow == GetStreakInfoAt(now)

StreakNext == StreakInfoNow

StreakSpec == StreakInit /\ [][StreakNext]_vars

(***************************************************************************)
(* Properties.                                                             *)
(***************************************************************************)
\* the calendar dates (as date strings) of the years lo..hi
CalendarDates(lo, hi) ==
    {d \in (lo..hi) \X (1..12) \X (1..31) : d[3] <= DaysInMonth(d[1], d[2])}

\* the calendar date before d, by the calendar's rules
PreviousCalendarDate(d) ==
    IF d[3] > 1 THEN <<d[1], d[2], d[3] - 1>>
    ELSE IF d[2] > 1 THEN <<d[1], d[2] - 1, DaysInMonth(d[1], d[2] - 1)>>
    ELSE <<d[1] - 1, 12, 31>>

\* the calendar date of the instant t: the date string that parses to its date
CalendarDateOf(t) == CHOOSE d \in CalendarDates(2023, 2025) : ToOrdinal(d) = t.ord

\* the value of a mapping key -> seconds at key k, 0 when k is no key
Bucket(f, k) == IF k \in DOMAIN f THEN f[k] ELSE 0

\* C1: every stored record has Duration >= 60; a record-session request whose
\* duration is under 60 (or absent) is answered 'too short' and leaves the
\* store, and with it every later aggregate, as it was.
C1_ShortSessionsNeverStored ==
    /\ \A i \in Rows(store) : store[i].Duration >= 60
    /\ (resp.op = "record" /\ Duration2(hist.req) < 2 * 60) =>
           /\ resp.status = 400
           /\ resp.message = "too_short"
           /\ store = hist.store

C1_Witness ==
    /\ resp.op = "record"
    /\ resp.status = 400
    /\ hist.req.duration = 119
    /\ "duration" \in hist.req.fields
    /\ Len(store) >= 1

\* C2: the study date get_custom_date returns (the date today-stats reports)
\* is the calendar date of the instant, minus one day when its hour is
\* under 5, and the calendar date itself from hour 5 on.
C2_StudyDateBoundary ==
    resp.op = "today" =>
        resp.date = IF now.hour < 5
                    THEN PreviousCalendarDate(CalendarDateOf(now))
                    ELSE CalendarDateOf(now)

C2_Witness ==
    /\ resp.op = "today"
    /\ now.hour = 4
    /\ now.ord = ToOrdinal(<<2024, 1, 1>>)
    /\ resp.date = <<2023, 12, 31>>

\* C3: for a non-empty set of study dates, streak_days is 0 when today is not
\* in the set, and otherwise the length k >= 1 of the run today, today-1, ...,
\* today-(k-1) of dates in the set with today-k not in the set.
C3_StreakIsMaximalRun ==
    (resp.op = "streak" /\ DistinctDates(store) # {}) =>
        LET studied == {ToOrdinal(d) : d \in DistinctDates(store)}
            today   == ToOrdinal(get_custom_date(now))
            k       == resp.streak_days
        IN  IF today \notin studied THEN k = 0
            ELSE /\ k >= 1
                 /\ \A i \in 0..(k - 1) : (today - i) \in studied
                 /\ (today - k) \notin studied

C3_Witness ==
    /\ resp.op = "streak"
    /\ resp.streak_days = 3
    /\ Cardinality(DistinctDates(store)) = 4
    /\ get_custom_date(now) = <<2024, 1, 2>>

\* C4: missed_days holds exactly the calendar dates d with
\* min(dates) <= d <= today that are not study dates, each once, most recent
\* first; it is empty for the empty set.
C4_MissedDaysIsComplement ==
    resp.op = "streak" =>
        LET dates  == DistinctDates(store)
            today  == get_custom_date(now)
            missed == resp.missed_days
        IN  IF dates = {} THEN missed = <<>>
            ELSE LET first == StrMin(dates)
                 IN  /\ {missed[i] : i \in 1..Len(missed)} =
                            {d \in CalendarDates(first[1], today[1]) :
                                /\ ~StrLess(d, first)
                                /\ ~StrLess(today, d)
                                /\ d \notin dates}
                     /\ \A i \in 1..(Len(missed) - 1) : StrLess(missed[i + 1], missed[i])

C4_Witness ==
    /\ resp.op = "streak"
    /\ Len(resp.missed_days) >= 3
    /\ resp.missed_days[1] = get_custom_date(now)
    /\ resp.missed_days[1][1] = 2024
    /\ resp.missed_days[Len(resp.missed_days)][1] = 2023

\* C5: in a statistics response the per-subject sums add up to the total, and
\* the per-day sums add up to the total.
C5_StatisticsSumsAgree ==
    resp.op = "statistics" =>
        /\ SumMap(resp.subject_times) = resp.total_seconds
        /\ SumMap(resp.daily_stats) = resp.total_seconds

C5_Witness ==
    /\ resp.op = "statistics"
    /\ Len(store) = 2
    /\ resp.total_seconds > 0
    /\ resp.total_seconds < SumDuration(store, Rows(store))
    /\ \E i \in Rows(store) : store[i].Date = resp.cutoff_date

\* C6: in every window of a subject-comparison response the window total
\* equals the sum of the 'seconds' entries of the window's per-subject map.
C6_WindowTotalIsSubjectSum ==
    resp.op = "comparison" =>
        \A days \in DOMAIN resp.comparison_data :
            LET w == resp.comparison_data[days]
            IN  w.total_seconds =
                    SumMap([s \in DOMAIN w.subjects |-> w.subjects[s].seconds])

\* C7: a subject-comparison response has one entry for each window of
\* {3, 7, 14, 30, 180}; the keys of each per-subject map are exactly SUBJECTS;
\* each subject's seconds is the sum of the durations of its records dated on
\* or after the window's cutoff, 0 when there are none.
C7_EverySubjectInEveryWindow ==
    resp.op = "comparison" =>
        /\ DOMAIN resp.comparison_data = {3, 7, 14, 30, 180}
        /\ \A days \in DOMAIN resp.comparison_data :
              LET w == resp.comparison_data[days]
              IN  /\ DOMAIN w.subjects = SUBJECTS
                  /\ \A s \in SUBJECTS :
                        LET mine == {i \in Rows(store) :
                                        /\ store[i].Subject = s
                                        /\ ~StrLess(store[i].Date, w.cutoff_date)}
                        IN  /\ mine = {} => w.subjects[s].seconds = 0
                            /\ w.subjects[s].seconds = SumDuration(store, mine)

C7_Witness ==
    /\ resp.op = "comparison"
    /\ resp.comparison_data[3].subjects["wonga"].seconds = 0
    /\ resp.comparison_data[7].subjects["wonga"].seconds > 0
    /\ \E i \in Rows(store) : store[i].Subject = "english"

\* C8 as claimed: when record-session with duration d for subject s succeeds
\* and the next request is today-stats, the total is what today-stats would
\* have returned just before the recording plus d, and so is the bucket of s.
C8_AsClaimed ==
    (resp.op = "today" /\ hist.prev.op = "record") =>
        LET before == hist.prev.store
            date   == get_custom_date(hist.prev.now)
            req    == hist.prev.req
            total_before  == SumDuration(before, FilterByDate(before, date))
            bucket_before ==
                SumDuration(before, {i \in FilterByDate(before, date) :
                                        before[i].Subject = req.subject})
        IN  /\ 2 * resp.today_total_seconds = 2 * total_before + req.duration
            /\ 2 * Bucket(resp.subject_times, req.subject) =
                   2 * bucket_before + req.duration

\* C8 as amended: when moreover both requests fall on the same study date,
\* the total and the bucket of s are larger by the whole seconds of d, the
\* duration that was stored.
C8_SameStudyDate ==
    (/\ resp.op = "today"
     /\ hist.prev.op = "record"
     /\ get_custom_date(hist.prev.now) = get_custom_date(now)) =>
        LET before == hist.prev.store
            date   == get_custom_date(hist.prev.now)
            req    == hist.prev.req
            stored == req.duration \div 2
            total_before  == SumDuration(before, FilterByDate(before, date))
            bucket_before ==
                SumDuration(before, {i \in FilterByDate(before, date) :
                                        before[i].Subject = req.subject})
        IN  /\ resp.today_total_seconds = total_before + stored
            /\ Bucket(resp.subject_times, req.subject) = bucket_before + stored

C8_Witness ==
    /\ resp.op = "today"
    /\ hist.prev.op = "record"
    /\ get_custom_date(hist.prev.now) = get_custom_date(now)
    /\ hist.prev.req.duration = 181
    /\ resp.today_total_seconds = 150
    /\ Bucket(resp.subject_times, hist.prev.req.subject) = 90

\* C9: streak-info answers without error and picks its message in this order:
\* no dates -> 'start studying'; streak_days > 0 -> the streak message with
\* streak_days; last study date = today - 1 -> 'rested yesterday'; last study
\* date < today - 1 -> 'N days' with N = today - last; last study date not
\* before today -> a neutral message that is not empty.
C9_MessagePrecedence ==
    resp.op = "streak" =>
        LET dates == DistinctDates(store)
            today == ToOrdinal(get_custom_date(now))
        IN  /\ resp.status = 200
            /\ dates = {} => resp.message.kind = "first_study"
            /\ dates # {} =>
                  LET last == ToOrdinal(StrMax(dates))
                  IN  /\ resp.streak_days > 0 =>
                             /\ resp.message.kind = "streak"
                             /\ resp.message.n = resp.streak_days
                      /\ (resp.streak_days = 0 /\ last = today - 1) =>
                             resp.message.kind = "start_today"
                      /\ (resp.streak_days = 0 /\ last < today - 1) =>
                             /\ resp.message.kind = "days_rested"
                             /\ resp.message.n = today - last
                      /\ (resp.streak_days = 0 /\ ~(last < today)) =>
                             resp.message.kind # ""

\* C10: a record is added by a record-session request exactly when the
\* request succeeds, and then exactly one; a request that fails validation
\* (duration under 60, a missing field) or whose commit fails leaves the store
\* as it was and is answered with an error.
C10_FailedRequestLeavesStore ==
    resp.op = "record" =>
        /\ resp.status = 200 =>
              /\ Len(store) = Len(hist.store) + 1
              /\ SubSeq(store, 1, Len(hist.store)) = hist.store
        /\ resp.status # 200 => store = hist.store
        /\ (Duration2(hist.req) < 2 * 60 \/ hist.req.fields # FieldNames) =>
              resp.status # 200
        /\ store # hist.store => resp.status = 200

C10_Witness ==
    /\ resp.op = "record"
    /\ resp.status = 500
    /\ resp.message = "db_failed"
    /\ Len(store) = 1
    /\ store = hist.store

=============================================================================
